---- MODULE Spec2Model ----
(***************************************************************************)
(* A model of proompt's composition core (src/src/proompt/base/prompt.py): *)
(* PromptSection (context property, add_providers, add_tools,              *)
(* _normalize_tool) and BasePrompt, together with the concrete sections    *)
(* and prompts of src/examples that implement formatter() and render().    *)
(*                                                                         *)
(* Python objects are named by strings.  A Python value that the code      *)
(* produces (None, a ToolContext, a list, a str) is a record tagged by     *)
(* its type in the field `kind`, so that an untyped Python list is a       *)
(* sequence of tagged values.  A rendered text is a sequence of tokens.    *)
(***************************************************************************)
EXTENDS Integers, Sequences, FiniteSets, TLC

VARIABLES
    avail,      \* PYDANTIC_AI_AVAILABLE, fixed when the package is imported
    klass,      \* klass[s]: the concrete class of section s
    context,    \* context[s]: section s's _context (an object name)
    tools,      \* tools[s]: section s's tools list (tagged values)
    providers,  \* providers[s]: section s's providers list (object names)
    pklass,     \* the concrete class of the prompt
    sections,   \* the prompt's sections list (section ids)
    calls,      \* calls[p]: how many times provider p's run() has been called
    last,       \* the last operation: name, target, arguments, outcome
    heap        \* which list objects the sections hold, and the caller's list

vars == <<avail, klass, context, tools, providers, pklass, sections, calls, last, heap>>

(***************************************************************************)
(* Bounds of the model.                                                    *)
(***************************************************************************)
\* Sections that exist (section ids 1..NumSections).
NumSections == 2
\* Longest argument list passed to add_tools / add_providers / the constructor.
MaxArgs == 2
\* Cap on len(section.tools); an operation that would exceed it is not taken.
MaxTools == 3
\* Cap on len(section.providers).
MaxProviders == 2
\* Cap on len(prompt.sections).
MaxSections == 3
\* Cap on the run() counter of a provider.
MaxCalls == 3
\* The interpreter's recursion limit (sys.getrecursionlimit()), scaled down:
\* a call nested deeper than this raises RecursionError.
RecursionLimit == 4

SecIds == 1..NumSections

\* All sequences over S of length 0..n.
SeqsUpTo(S, n) == UNION {[1..k -> S] : k \in 0..n}

(***************************************************************************)
(* The objects callers pass as tools.                                      *)
(***************************************************************************)
None == "None"

\* Instances of ToolContext (isinstance(x, ToolContext)).
\*   proompt_tool   ToolContext(format_report)
\*   toolset_ctx    a ToolContext subclass instance that also carries a
\*                  `tools` dict attribute
ToolContexts == {"proompt_tool", "toolset_ctx"}

\* pydantic-ai Tool objects: function, name and description attributes.
PydanticTools == {"search_tool", "calc_tool"}

\* Objects whose `tools` attribute is a dict (FunctionToolset shape).
\*   cyclic_toolset holds itself as one of its values.
\*   callable_toolset has an empty `tools` dict and also the function, name
\*   and description attributes of a pydantic-ai Tool.
Toolsets == {"empty_toolset", "analysis_toolset", "mixed_toolset",
             "nested_toolset", "junk_toolset", "cyclic_toolset",
             "callable_toolset"}

\* Objects of no tool shape: an int, an object with name and description
\* but no function, an object whose `tools` attribute is a list.
Unrelated == {"42", "partial_tool", "tools_is_list"}

ToolObjs == {None} \cup ToolContexts \cup PydanticTools \cup Toolsets \cup Unrelated

\* hasattr(x, a)
Attrs(x) ==
    CASE x \in PydanticTools    -> {"function", "name", "description"}
      [] x = "callable_toolset" -> {"function", "name", "description", "tools"}
      [] x = "proompt_tool"     -> {"tool", "tool_name", "tool_description"}
      [] x = "toolset_ctx"      -> {"tool", "tool_name", "tool_description", "tools"}
      [] x \in Toolsets         -> {"tools"}
      [] x = "partial_tool"     -> {"name", "description"}
      [] x = "tools_is_list"    -> {"tools"}
      [] OTHER                  -> {}

\* The values() of x.tools, in the dict's iteration order, when x.tools is a dict.
ToolsValues(x) ==
    CASE x = "empty_toolset"    -> <<>>
      [] x = "analysis_toolset" -> <<"search_tool", "calc_tool">>
      [] x = "mixed_toolset"    -> <<"42", "proompt_tool", None, "search_tool">>
      [] x = "nested_toolset"   -> <<"calc_tool", "analysis_toolset", "empty_toolset">>
      [] x = "junk_toolset"     -> <<"42", "partial_tool">>
      [] x = "cyclic_toolset"   -> <<"search_tool", "cyclic_toolset">>
      [] x = "toolset_ctx"      -> <<"search_tool">>
      [] OTHER                  -> <<>>

\* isinstance(getattr(x, 'tools', None), dict)
ToolsIsDict(x) == x \in Toolsets \cup {"toolset_ctx"}

\* The function a tool object wraps, its name and its description.
FunctionOf(x) ==
    CASE x = "proompt_tool" -> "format_report"
      [] x = "toolset_ctx"  -> "get_company_metrics"
      [] x = "search_tool"  -> "search_documents"
      [] x = "calc_tool"    -> "calculate_percentage"
      [] OTHER              -> "undefined"

DescriptionOf(x) ==
    CASE x = "proompt_tool" -> "Format data into a readable report."
      [] x = "toolset_ctx"  -> "Retrieve company metrics."
      [] x = "search_tool"  -> "Search through company documents."
      [] x = "calc_tool"    -> "Calculate percentage from two numbers."
      [] OTHER              -> "undefined"

(***************************************************************************)
(* Python values.                                                          *)
(***************************************************************************)
NoneV == [kind |-> "None"]

ListV(items) == [kind |-> "list", items |-> items]

\* A ToolContext value.  `origin` and `of` give the object's identity: the
\* caller's own ToolContext `of`, or the one from_pydantic_tool made of `of`.
ToolContextV(origin, of) ==
    [kind |-> "ToolContext", origin |-> origin, of |-> of,
     tool |-> FunctionOf(of), tool_name |-> FunctionOf(of),
     tool_description |-> DescriptionOf(of)]

\* The outcome of a call: the exception raised ("None" when it returned)
\* and the value returned.
Return(v) == [exc |-> "None", ret |-> v]

Raise(e) == [exc |-> e, ret |-> NoneV]

\* ToolContext.from_pydantic_tool(tool): reads tool.function, tool.name and
\* tool.description; a missing attribute raises AttributeError.
from_pydantic_tool(tool) ==
    IF {"function", "name", "description"} \subseteq Attrs(tool)
    THEN Return(ToolContextV("from_pydantic_tool", tool))
    ELSE Raise("AttributeError")

(***************************************************************************)
(* PromptSection._normalize_tool                                           *)
(***************************************************************************)
\* A short-circuit that is tried only after the FunctionToolset detection.
IsToolContextAfterToolset(tool) ==
    tool \in ToolContexts /\ ~(avail /\ "tools" \in Attrs(tool))

\* isinstance(tool, ToolContext): the input is returned as-is.
IsToolContext(tool) == tool \in ToolContexts

\* A detection of collections that does not ask whether pydantic-ai is there.
IsFunctionToolsetUnguarded(tool) ==
    "tools" \in Attrs(tool) /\ ToolsIsDict(tool)

\* PYDANTIC_AI_AVAILABLE and hasattr(tool, 'tools') and the attribute is a dict.
IsFunctionToolset(tool) ==
    avail /\ "tools" \in Attrs(tool) /\ ToolsIsDict(tool)

\* A collecting loop that appends a list result instead of extending by it.
CollectNested(result, normalized) ==
    IF normalized = NoneV THEN result ELSE Append(result, normalized)

\* One round of the collecting loop: None is skipped, a list is extended
\* into the result, anything else is appended.
Collect(result, normalized) ==
    IF normalized = NoneV THEN result
    ELSE IF normalized.kind = "list" THEN result \o normalized.items
    ELSE Append(result, normalized)

\* A return that hands out the result list also when it is empty.
ResultAlways(result) == ListV(result)

\* `return result if result else None`
ResultOrNone(result) == IF result = <<>> THEN NoneV ELSE ListV(result)

\* A conversion without the try block: every exception propagates.
FromPydanticToolUncaught(tool) == from_pydantic_tool(tool)

\* The try block around from_pydantic_tool: AttributeError and TypeError are
\* turned into None, any other exception propagates.
TryFromPydanticTool(tool) ==
    LET r == from_pydantic_tool(tool)
    IN  IF r.exc \in {"AttributeError", "TypeError"} THEN Return(NoneV) ELSE r

RECURSIVE _normalize_tool(_, _)
RECURSIVE NormalizeValues(_, _, _, _)

\* The loop over tools_attr.values() from position i on, with `result` so far;
\* an exception of a recursive call ends the loop and propagates.
NormalizeValues(values, i, result, depth) ==
    IF i > Len(values) THEN Return(ResultOrNone(result))
    ELSE LET r == _normalize_tool(values[i], depth)
         IN  IF r.exc # "None" THEN r
             ELSE NormalizeValues(values, i + 1, Collect(result, r.ret), depth)

\* _normalize_tool(tool), called at recursion depth `depth`.
_normalize_tool(tool, depth) ==
    IF depth > RecursionLimit THEN Raise("RecursionError")
    ELSE IF tool = None THEN Return(NoneV)
    ELSE IF IsToolContext(tool) THEN Return(ToolContextV("native", tool))
    ELSE IF IsFunctionToolset(tool)
         THEN NormalizeValues(ToolsValues(tool), 1, <<>>, depth + 1)
    ELSE IF avail THEN TryFromPydanticTool(tool)
    ELSE Return(NoneV)

(***************************************************************************)
(* PromptSection.add_tools and the constructor's tools loop                *)
(***************************************************************************)
RECURSIVE NormalizeIntoAppend(_, _, _)
\* A loop that appends whatever the normalizer returned, None and lists too.
NormalizeIntoAppend(ts, i, acc) ==
    IF i > Len(ts) THEN Return(ListV(acc))
    ELSE IF ts[i] = None THEN NormalizeIntoAppend(ts, i + 1, acc)
    ELSE LET r == _normalize_tool(ts[i], 1)
         IN  IF r.exc # "None" THEN [exc |-> r.exc, ret |-> ListV(acc)]
             ELSE NormalizeIntoAppend(ts, i + 1, Append(acc, r.ret))

RECURSIVE AddOnce(_, _, _)
\* The list acc with those of items from position i on that it lacks.
AddOnce(acc, items, i) ==
    IF i > Len(items) THEN acc
    ELSE IF \E j \in 1..Len(acc) : acc[j] = items[i] THEN AddOnce(acc, items, i + 1)
    ELSE AddOnce(Append(acc, items[i]), items, i + 1)

RECURSIVE NormalizeIntoOnce(_, _, _)
\* A loop that keeps the tools list free of duplicates.
NormalizeIntoOnce(ts, i, acc) ==
    IF i > Len(ts) THEN Return(ListV(acc))
    ELSE IF ts[i] = None THEN NormalizeIntoOnce(ts, i + 1, acc)
    ELSE LET r == _normalize_tool(ts[i], 1)
         IN  IF r.exc # "None" THEN [exc |-> r.exc, ret |-> ListV(acc)]
             ELSE IF r.ret = NoneV THEN NormalizeIntoOnce(ts, i + 1, acc)
             ELSE IF r.ret.kind = "list"
             THEN NormalizeIntoOnce(ts, i + 1, AddOnce(acc, r.ret.items, 1))
             ELSE NormalizeIntoOnce(ts, i + 1, AddOnce(acc, <<r.ret>>, 1))

RECURSIVE NormalizeInto(_, _, _)

\* The loop `for t in tools` from position i on, with the tools list `acc`
\* so far: None arguments and None results are skipped, a list result is
\* extended into the list, anything else is appended.  The list is changed
\* in place, so when a call raises, `ret` holds what was appended before.
NormalizeInto(ts, i, acc) ==
    IF i > Len(ts) THEN Return(ListV(acc))
    ELSE IF ts[i] = None THEN NormalizeInto(ts, i + 1, acc)
    ELSE LET r == _normalize_tool(ts[i], 1)
         IN  IF r.exc # "None" THEN [exc |-> r.exc, ret |-> ListV(acc)]
             ELSE NormalizeInto(ts, i + 1, Collect(acc, r.ret))

(***************************************************************************)
(* The state after `import proompt` and the default construction of every  *)
(* section (`AnalysisSection()`) and of the prompt (`MixedToolsPrompt()`). *)
(***************************************************************************)
\* The record kept in `last`.
Op(op, sec, args, exc, ret, trace) ==
    [op |-> op, sec |-> sec, args |-> args, exc |-> exc, ret |-> ret,
     trace |-> trace]

\* The data providers callers construct.
\*   metrics_provider   MetricsAPIProvider("Company Metrics")
\*   logs_provider      LogAnalysisProvider("System Logs")
\*   failing_provider   an instance of a MetricsAPIProvider subclass whose
\*                      run() raises ConnectionError
\*   static_provider    an instance of a LogAnalysisProvider subclass whose
\*                      run() returns the same data on every call
ProviderObjs ==
    {"metrics_provider", "logs_provider", "failing_provider", "static_provider"}

\* List objects, known by who made them.  The constructor call for section
\* s makes the lists of section s; the caller keeps one list of tools and
\* passes the same providers to every call, and a function has one object
\* per default value (sec 0 stands for no section).
CallerList == [made_by |-> "caller", sec |-> 0]

SharedDefault == [made_by |-> "default", sec |-> 0]

SharedArgs == [made_by |-> "args", sec |-> 0]

\* An attribute that is bound to the object the constructor was given.
GivenList(s, given) == given

\* `[]` and `list(...)`: a new list object, whatever it is filled from.
NewList(s, given) == [made_by |-> "__init__", sec |-> s]

\* The tools the caller's list holds before any section is built from it.
CallerTools == <<"proompt_tool">>

Init ==
    /\ heap = [tools     |-> [s \in SecIds |-> NewList(s, SharedDefault)],
               providers |-> [s \in SecIds |-> NewList(s, SharedDefault)],
               caller    |-> CallerTools]
    /\ avail \in BOOLEAN
    /\ klass = [s \in SecIds |-> "AnalysisSection"]
    /\ context = [s \in SecIds |-> None]
    /\ tools = [s \in SecIds |-> <<>>]
    /\ providers = [s \in SecIds |-> <<>>]
    /\ pklass = "MixedToolsPrompt"
    /\ sections = <<>>
    /\ calls = [p \in ProviderObjs |-> 0]
    /\ last = Op("import", 0, <<>>, "None", NoneV, <<>>)

\* The abstract methods a class leaves without an override.
\*   BareSection            a PromptSection subclass that defines nothing
\*   FormatterOnlySection   a PromptSection subclass that defines formatter()
\*   BarePrompt             a BasePrompt subclass that defines nothing
\* Every other class overrides what its base declares abstract.
AbstractMethods(cls) ==
    CASE cls = "BareSection"          -> {"formatter", "render"}
      [] cls = "FormatterOnlySection" -> {"render"}
      [] cls = "BarePrompt"           -> {"render"}
      [] OTHER                        -> {}

\* A class check that lets every class be instantiated.
NeverAbstract(cls) == FALSE

\* ABC refuses to instantiate a class that has abstract methods left.
IsAbstract(cls) == AbstractMethods(cls) # {}

\* The section ids held by the prompt.
Held == {sections[i] : i \in 1..Len(sections)}

(***************************************************************************)
(* PromptSection.__init__ with context c, tools ts and providers ps, on    *)
(* class cls; the new object takes the place of the unreferenced section s. *)
(* When the tools loop raises, no object is made and s stays as it was;    *)
(* a class with abstract methods left raises TypeError before __init__     *)
(* runs.                                                                   *)
(***************************************************************************)
Construct(s, cls, c, ts, ps) ==
    LET items == IF ts = NoneV THEN <<>> ELSE ts.items
        r == IF IsAbstract(cls) THEN [exc |-> "TypeError", ret |-> ListV(<<>>)]
             ELSE NormalizeInto(items, 1, <<>>)
        a == [cls |-> cls, context |-> c, tools |-> ts, providers |-> ps]
    IN  /\ s \notin Held
        /\ Len(r.ret.items) <= MaxTools
        /\ Len(ps) <= MaxProviders
        /\ last' = Op("__init__", s, a, r.exc, NoneV, <<>>)
        /\ IF r.exc = "None"
           THEN /\ klass' = [klass EXCEPT ![s] = cls]
                /\ context' = [context EXCEPT ![s] = c]
                /\ providers' = [providers EXCEPT ![s] = ps]
                /\ tools' = [tools EXCEPT ![s] = r.ret.items]
           ELSE UNCHANGED <<klass, context, providers, tools>>
        /\ UNCHANGED <<avail, heap, pklass, sections, calls>>

\* An add_tools that handles its first argument only.
add_tools_first_only(s, ts) ==
    LET r == NormalizeInto(IF ts = <<>> THEN ts ELSE <<ts[1]>>, 1, tools[s])
    IN  /\ Len(r.ret.items) <= MaxTools
        /\ tools' = [tools EXCEPT ![s] = r.ret.items]
        /\ last' = Op("add_tools", s, ts, r.exc, NoneV, <<>>)
        /\ UNCHANGED <<avail, heap, klass, context, providers, pklass, sections, calls>>

(***************************************************************************)
(* PromptSection.add_tools, called with the argument tuple ts              *)
(***************************************************************************)
add_tools(s, ts) ==
    LET r == NormalizeInto(ts, 1, tools[s])
    IN  /\ Len(r.ret.items) <= MaxTools
        /\ tools' = [tools EXCEPT ![s] = r.ret.items]
        /\ last' = Op("add_tools", s, ts, r.exc, NoneV, <<>>)
        /\ UNCHANGED <<avail, heap, klass, context, providers, pklass, sections, calls>>

(***************************************************************************)
(* A direct call section._normalize_tool(tool)                             *)
(***************************************************************************)
NormalizeCall(s, tool) ==
    LET r == _normalize_tool(tool, 1)
    IN  /\ last' = Op("_normalize_tool", s, <<tool>>, r.exc, r.ret, <<>>)
        /\ UNCHANGED <<avail, heap, klass, context, tools, providers, pklass, sections, calls>>

\* The section the tool operations are exercised on.
ToolSecs == {1}

\* The objects that argument lists of more than one element are made of.
CoreTools == {None, "proompt_tool", "search_tool", "empty_toolset", "cyclic_toolset"}

\* The argument tuples of add_tools: every object alone, and every tuple of
\* up to MaxArgs core objects.
ToolTuples == {<<x>> : x \in ToolObjs} \cup SeqsUpTo(CoreTools, MaxArgs)

\* The tools argument of the constructor: None or a list.
ToolsArgs == {NoneV} \cup {ListV(ts) : ts \in ToolTuples}

ConstructWithTools ==
    \E s \in ToolSecs, ts \in ToolsArgs :
        Construct(s, "AnalysisSection", None, ts, <<>>)

AddTools == \E s \in ToolSecs, ts \in ToolTuples : add_tools(s, ts)

Normalize == \E s \in ToolSecs, tool \in ToolObjs : NormalizeCall(s, tool)

NextTools == ConstructWithTools \/ AddTools \/ Normalize

SpecTools == Init /\ [][NextTools]_vars

(***************************************************************************)
(* The `context` property of PromptSection                                 *)
(***************************************************************************)
\* Instances of Context (isinstance(x, Context)).
\*   business_context   BusinessContext("TechCorp Solutions", "Q3", 2024)
\*   empty_context      an instance of a Context subclass that defines
\*                      __len__ and is empty, so that bool(x) is False
Contexts == {"business_context", "empty_context"}

\* What callers may pass as a context: None, a Context, a non-empty str and
\* an empty str.
ContextObjs == {None, "Ctx: X", "empty_str"} \cup Contexts

\* bool(x)
Truthy(x) == x \notin {None, "empty_context", "empty_str"}

\* A Python object passed through unchanged.
ObjectV(x) == [kind |-> "object", of |-> x]

\* A getter that hands out None when no context is set.
context_get_default(s) ==
    /\ last' = Op("context.get", s, <<>>, "None",
                  IF context[s] = None THEN NoneV ELSE ObjectV(context[s]), <<>>)
    /\ UNCHANGED <<avail, heap, klass, context, tools, providers, pklass, sections, calls>>

\* The getter: `if not self._context: raise ValueError(...)`.
context_get(s) ==
    /\ last' = IF ~Truthy(context[s])
               THEN Op("context.get", s, <<>>, "ValueError", NoneV, <<>>)
               ELSE Op("context.get", s, <<>>, "None", ObjectV(context[s]), <<>>)
    /\ UNCHANGED <<avail, heap, klass, context, tools, providers, pklass, sections, calls>>

\* A setter without the type check.
context_set_unchecked(s, value) ==
    /\ context' = [context EXCEPT ![s] = value]
    /\ last' = Op("context.set", s, <<value>>, "None", NoneV, <<>>)
    /\ UNCHANGED <<avail, heap, klass, tools, providers, pklass, sections, calls>>

\* A setter that drops the bound context before it checks the new value.
context_set_clearing(s, value) ==
    /\ IF value \notin Contexts
       THEN /\ last' = Op("context.set", s, <<value>>, "TypeError", NoneV, <<>>)
            /\ context' = [context EXCEPT ![s] = None]
       ELSE /\ last' = Op("context.set", s, <<value>>, "None", NoneV, <<>>)
            /\ context' = [context EXCEPT ![s] = value]
    /\ UNCHANGED <<avail, heap, klass, tools, providers, pklass, sections, calls>>

\* The setter: a value that is not a Context raises TypeError.
context_set(s, value) ==
    /\ IF value \notin Contexts
       THEN /\ last' = Op("context.set", s, <<value>>, "TypeError", NoneV, <<>>)
            /\ UNCHANGED context
       ELSE /\ last' = Op("context.set", s, <<value>>, "None", NoneV, <<>>)
            /\ context' = [context EXCEPT ![s] = value]
    /\ UNCHANGED <<avail, heap, klass, tools, providers, pklass, sections, calls>>

ConstructWithContext ==
    \E s \in SecIds, c \in ContextObjs :
        Construct(s, "AnalysisSection", c, NoneV, <<>>)

GetContext == \E s \in SecIds : context_get(s)

SetContext == \E s \in SecIds, value \in ContextObjs : context_set(s, value)

NextContext == ConstructWithContext \/ GetContext \/ SetContext

SpecContext == Init /\ [][NextContext]_vars

(***************************************************************************)
(* PromptSection.add_providers                                             *)
(***************************************************************************)
\* What callers may pass as a provider: a BaseProvider, an int, a str, None.
ProviderArgObjs ==
    {"metrics_provider", "logs_provider", "42", "not a provider", None}

\* isinstance(p, BaseProvider)
IsBaseProvider(p) == p \in ProviderObjs

\* An add_providers that keeps every argument.
add_providers_unfiltered(s, ps) ==
    /\ Len(providers[s] \o ps) <= MaxProviders
    /\ providers' = [providers EXCEPT ![s] = @ \o ps]
    /\ last' = Op("add_providers", s, ps, "None", NoneV, <<>>)
    /\ UNCHANGED <<avail, heap, klass, context, tools, pklass, sections, calls>>

\* An add_providers that puts the new providers in front of the old ones.
add_providers_in_front(s, ps) ==
    LET kept == SelectSeq(ps, IsBaseProvider)
    IN  /\ Len(providers[s] \o kept) <= MaxProviders
        /\ providers' = [providers EXCEPT ![s] = kept \o @]
        /\ last' = Op("add_providers", s, ps, "None", NoneV, <<>>)
        /\ UNCHANGED <<avail, heap, klass, context, tools, pklass, sections, calls>>

\* self.providers.extend([p for p in providers if isinstance(p, BaseProvider)])
add_providers(s, ps) ==
    LET kept == SelectSeq(ps, IsBaseProvider)
    IN  /\ Len(providers[s] \o kept) <= MaxProviders
        /\ providers' = [providers EXCEPT ![s] = @ \o kept]
        /\ last' = Op("add_providers", s, ps, "None", NoneV, <<>>)
        /\ UNCHANGED <<avail, heap, klass, context, tools, pklass, sections, calls>>

\* The call add_providers(42, "not a provider", validProvider).
MixedProviders == <<"42", "not a provider", "metrics_provider">>

\* The argument tuples of add_providers and the constructor's providers.
ProviderTuples == SeqsUpTo(ProviderArgObjs, MaxArgs) \cup {MixedProviders}

ConstructWithProviders ==
    \E s \in ToolSecs, ps \in ProviderTuples :
        Construct(s, "AnalysisSection", None, NoneV, ps)

AddProviders == \E s \in ToolSecs, ps \in ProviderTuples : add_providers(s, ps)

NextProviders == ConstructWithProviders \/ AddProviders

SpecProviders == Init /\ [][NextProviders]_vars

(***************************************************************************)
(* add_tools and add_providers on one section, in any interleaving         *)
(***************************************************************************)
\* The argument tuples of the interleaved calls: a collection and every
\* object that is no tool alone, the tuples of None, a native and a foreign
\* tool, calls that mix a tool with an object that is none, and a call
\* whose second argument makes the normalizer raise.
ListToolTuples ==
    {<<x>> : x \in {"mixed_toolset", "empty_toolset", "junk_toolset"} \cup Unrelated}
        \cup SeqsUpTo({None, "proompt_tool", "search_tool"}, MaxArgs)
        \cup {<<"42", "proompt_tool">>, <<"search_tool", "empty_toolset">>,
              <<"proompt_tool", "cyclic_toolset">>}

ListProviderTuples ==
    SeqsUpTo({None, "metrics_provider", "logs_provider"}, MaxArgs) \cup {MixedProviders}

AddListTools == \E s \in ToolSecs, ts \in ListToolTuples : add_tools(s, ts)

AddListProviders == \E s \in ToolSecs, ps \in ListProviderTuples : add_providers(s, ps)

NextLists == AddListTools \/ AddListProviders

SpecLists == Init /\ [][NextLists]_vars

(***************************************************************************)
(* formatter() and render() of the concrete sections                       *)
(*   AnalysisSection            examples/04, lists its tools               *)
(*   ExecutiveSummarySection    examples/02, consumes MetricsAPIProvider   *)
(*   TechnicalAnalysisSection   examples/02, consumes MetricsAPIProvider   *)
(*                              and LogAnalysisProvider                    *)
(***************************************************************************)
SectionClasses ==
    {"AnalysisSection", "ExecutiveSummarySection", "TechnicalAnalysisSection"}

\* The class of a provider object (what isinstance tests).
ClassOf(p) ==
    CASE p \in {"metrics_provider", "failing_provider"} -> "MetricsAPIProvider"
      [] p \in {"logs_provider", "static_provider"}     -> "LogAnalysisProvider"
      [] OTHER                                          -> "other"

\* The provider classes the formatter of a section class calls run() on.
Consumes(cls) ==
    CASE cls = "ExecutiveSummarySection"  -> {"MetricsAPIProvider"}
      [] cls = "TechnicalAnalysisSection" -> {"MetricsAPIProvider", "LogAnalysisProvider"}
      [] OTHER                            -> {}

\* Tokens of a rendered text: those a section writes and those a prompt writes.
SectionTok(t, what, value) ==
    [level |-> "section", t |-> t, what |-> what, value |-> value]

PromptTok(t, what, value) ==
    [level |-> "prompt", t |-> t, what |-> what, value |-> value]

StrV(text) == [kind |-> "str", text |-> text]

\* provider.run(): the providers of the examples return fresh data on every
\* call, here the number of the call; failing_provider raises and
\* static_provider returns the same value (0) every time.
run(p, c) ==
    [exc   |-> IF p = "failing_provider" THEN "ConnectionError" ELSE "None",
     value |-> IF p = "static_provider" THEN 0 ELSE c[p] + 1,
     calls |-> [c EXCEPT ![p] = @ + 1]]

\* What a call of p.run() leaves in the loop's state: the counters, and the
\* data and a "run" event when it returned, or the exception and a "raise"
\* event when it raised.
AfterRun(p, r, acc) ==
    IF r.exc # "None"
    THEN [acc EXCEPT !.calls = r.calls, !.exc = r.exc,
                     !.trace = Append(@, [ev |-> "raise", of |-> p, exc |-> r.exc])]
    ELSE [acc EXCEPT !.calls = r.calls,
                     !.data = Append(@, SectionTok("data", p, r.value)),
                     !.trace = Append(@, [ev |-> "run", of |-> p, value |-> r.value])]

\* A loop body that reuses the data of a provider it has fetched before.
FetchCached(cls, p, acc) ==
    IF ClassOf(p) \notin Consumes(cls) THEN acc
    ELSE IF acc.calls[p] > 0
    THEN [acc EXCEPT !.data = Append(@, SectionTok("data", p, acc.calls[p]))]
    ELSE AfterRun(p, run(p, acc.calls), acc)

\* A loop body that catches the exception of run() and goes on.
FetchSwallowed(cls, p, acc) ==
    IF ClassOf(p) \notin Consumes(cls) THEN acc
    ELSE [AfterRun(p, run(p, acc.calls), acc) EXCEPT !.exc = "None"]

\* The body of `for provider in self.providers`: a provider of a consumed
\* class is run and its formatted data appended, any other is passed over.
Fetch(cls, p, acc) ==
    IF ClassOf(p) \notin Consumes(cls) THEN acc
    ELSE AfterRun(p, run(p, acc.calls), acc)

RECURSIVE FetchAllBackwards(_, _, _, _)
\* A loop that visits self.providers from the last to the first.
FetchAllBackwards(cls, ps, i, acc) ==
    IF i > Len(ps) \/ acc.exc # "None" THEN acc
    ELSE FetchAllBackwards(cls, ps, i + 1, Fetch(cls, ps[Len(ps) + 1 - i], acc))

RECURSIVE FetchAll(_, _, _, _)
\* The loop over self.providers from position i on; an exception of run()
\* ends the loop.
FetchAll(cls, ps, i, acc) ==
    IF i > Len(ps) \/ acc.exc # "None" THEN acc
    ELSE FetchAll(cls, ps, i + 1, Fetch(cls, ps[i], acc))

\* The tools part of a section's text: names only (ExecutiveSummarySection)
\* or names with descriptions.
ToolToks(cls, ts) ==
    [i \in 1..Len(ts) |->
        SectionTok("tool", ts[i].tool_name,
                   IF cls = "ExecutiveSummarySection" THEN "" ELSE ts[i].tool_description)]

\* The body of the abstract methods: `raise NotImplementedError`.
AbstractBody(c) ==
    [exc |-> "NotImplementedError", ret |-> NoneV, calls |-> c, trace |-> <<>>]

\* formatter() of section s, entered with the run() counters c.  The
\* formatter of SuperSection is `return super().formatter()`.
formatter(s, c) ==
    LET cls == klass[s]
        acc == FetchAll(cls, providers[s], 1,
                        [calls |-> c, data |-> <<>>, trace |-> <<>>, exc |-> "None"])
        text == <<SectionTok("head", cls, "")>> \o acc.data
                \o <<SectionTok("tools", cls, "")>> \o ToolToks(cls, tools[s])
                \o <<SectionTok("tail", cls, "")>>
    IN  IF cls = "SuperSection" THEN AbstractBody(c)
        ELSE [exc |-> acc.exc, ret |-> IF acc.exc = "None" THEN StrV(text) ELSE NoneV,
              calls |-> acc.calls, trace |-> acc.trace]

\* A render() that uses its providers up.
render_draining(s) ==
    LET r == formatter(s, calls)
    IN  /\ \A p \in ProviderObjs : r.calls[p] <= MaxCalls
        /\ calls' = r.calls
        /\ providers' = [providers EXCEPT ![s] = <<>>]
        /\ last' = Op("render", s, <<>>, r.exc, r.ret, r.trace)
        /\ UNCHANGED <<avail, heap, klass, context, tools, pklass, sections>>

\* section.render(): `return self.formatter()`.
render(s) ==
    LET r == formatter(s, calls)
    IN  /\ \A p \in ProviderObjs : r.calls[p] <= MaxCalls
        /\ calls' = r.calls
        /\ last' = Op("render", s, <<>>, r.exc, r.ret, r.trace)
        /\ UNCHANGED <<avail, heap, klass, context, tools, providers, pklass, sections>>

(***************************************************************************)
(* BasePrompt.__init__ and render() of the concrete prompts                *)
(*   MixedToolsPrompt       examples/04                                    *)
(*   QuarterlyReviewPrompt  examples/02                                    *)
(***************************************************************************)
PromptClasses == {"MixedToolsPrompt", "QuarterlyReviewPrompt"}

\* BasePrompt.__init__: self.sections = list(sections or []); a class with
\* abstract methods left raises TypeError and no prompt is made.
ConstructPrompt(cls, secs) ==
    LET a == [cls |-> cls, sections |-> secs]
    IN  /\ IF IsAbstract(cls)
           THEN /\ last' = Op("Prompt.__init__", 0, a, "TypeError", NoneV, <<>>)
                /\ UNCHANGED <<pklass, sections>>
           ELSE /\ last' = Op("Prompt.__init__", 0, a, "None", NoneV, <<>>)
                /\ pklass' = cls
                /\ sections' = secs
        /\ UNCHANGED <<avail, heap, klass, context, tools, providers, calls>>

RECURSIVE RenderAll(_, _, _)
\* The generator `section.render() for section in self.sections` from
\* position i on: the texts returned so far, the counters and the trace.
\* A render() that raises ends the generator and the join around it.
RenderAll(secs, i, acc) ==
    IF i > Len(secs) \/ acc.exc # "None" THEN acc
    ELSE LET r == formatter(secs[i], acc.calls)
             text == IF r.exc = "None" THEN r.ret.text ELSE <<>>
         IN  RenderAll(secs, i + 1,
                 [calls |-> r.calls,
                  texts |-> IF r.exc = "None" THEN Append(acc.texts, text)
                            ELSE acc.texts,
                  trace |-> acc.trace
                            \o <<[ev |-> "render", of |-> secs[i], value |-> text]>>
                            \o r.trace,
                  exc   |-> r.exc])

RECURSIVE JoinReversed(_, _)
\* A join that puts the later texts first.
JoinReversed(sep, texts) ==
    IF texts = <<>> THEN <<>>
    ELSE IF Len(texts) = 1 THEN texts[1]
    ELSE JoinReversed(sep, Tail(texts)) \o <<sep>> \o texts[1]

RECURSIVE Join(_, _)
\* sep.join(texts)
Join(sep, texts) ==
    IF texts = <<>> THEN <<>>
    ELSE IF Len(texts) = 1 THEN texts[1]
    ELSE texts[1] \o <<sep>> \o Join(sep, Tail(texts))

\* len([p for section in self.sections for p in section.providers if p is not None])
RECURSIVE CountProviders(_, _)
CountProviders(secs, i) ==
    IF i > Len(secs) THEN 0
    ELSE Len(SelectSeq(providers[secs[i]], LAMBDA p : p # None)) + CountProviders(secs, i + 1)

\* len([t for section in self.sections for t in section.tools])
RECURSIVE CountTools(_, _)
CountTools(secs, i) ==
    IF i > Len(secs) THEN 0 ELSE Len(tools[secs[i]]) + CountTools(secs, i + 1)

NewLines == PromptTok("sep", "newlines", "")

\* A prompt text that is stamped with a value read at render time.
AssembleStamped(cls, texts) ==
    <<PromptTok("header", "rendered_at", calls["static_provider"])>>
    \o Join(NewLines, texts)

\* The text a prompt of class cls makes of the sections' texts.
Assemble(cls, texts) ==
    IF cls = "MixedToolsPrompt" THEN Join(NewLines, texts)
    ELSE <<PromptTok("header", cls, "")>>
         \o <<NewLines, PromptTok("rule", cls, "")>> \o Join(NewLines, texts)
         \o <<PromptTok("rule", cls, ""),
              PromptTok("footer", "providers", CountProviders(sections, 1)),
              PromptTok("footer", "tools", CountTools(sections, 1)),
              PromptTok("footer", "sections", Len(sections))>>

\* The outcome of the prompt's render() entered with the run() counters c.
RenderPrompt(c) ==
    LET acc == RenderAll(sections, 1,
                         [calls |-> c, texts |-> <<>>, trace |-> <<>>, exc |-> "None"])
    IN  [exc |-> acc.exc,
         ret |-> IF acc.exc = "None" THEN StrV(Assemble(pklass, acc.texts)) ELSE NoneV,
         calls |-> acc.calls, trace |-> acc.trace]

\* prompt.render()
PromptRender ==
    LET r == RenderPrompt(calls)
    IN  /\ \A p \in ProviderObjs : r.calls[p] <= MaxCalls
        /\ calls' = r.calls
        /\ last' = Op("Prompt.render", 0, <<>>, r.exc, r.ret, r.trace)
        /\ UNCHANGED <<avail, heap, klass, context, tools, providers, pklass, sections>>

\* The constructor calls of the examples' main(): class, context, tools and
\* providers of a section.
SectionCalls ==
    {[cls |-> "AnalysisSection", context |-> None,
      tools |-> ListV(<<"proompt_tool">>), providers |-> <<>>],
     [cls |-> "ExecutiveSummarySection", context |-> "business_context",
      tools |-> ListV(<<"proompt_tool">>), providers |-> <<"metrics_provider">>],
     [cls |-> "TechnicalAnalysisSection", context |-> "business_context",
      tools |-> NoneV, providers |-> <<"logs_provider", "metrics_provider">>]}

ConstructSection ==
    \E s \in SecIds, a \in SectionCalls :
        Construct(s, a.cls, a.context, a.tools, a.providers)

NewPrompt ==
    \E cls \in PromptClasses, secs \in SeqsUpTo(SecIds, MaxSections) :
        ConstructPrompt(cls, secs)

RenderSection == \E s \in SecIds : render(s)

NextRender == ConstructSection \/ NewPrompt \/ RenderSection \/ PromptRender

\* The state after import where pydantic-ai is installed.
InitAvailable == Init /\ avail = TRUE

SpecRender == InitAvailable /\ [][NextRender]_vars

(***************************************************************************)
(* Providers given to the constructor, added afterwards, and rendered      *)
(***************************************************************************)
\* The providers arguments: up to MaxArgs of a metrics provider, a log
\* provider and an object that is no provider.
OrderTuples == SeqsUpTo({"metrics_provider", "logs_provider", "42"}, MaxArgs)

ConstructOrdered ==
    \E s \in ToolSecs, ps \in OrderTuples,
       cls \in {"ExecutiveSummarySection", "TechnicalAnalysisSection"} :
        Construct(s, cls, "business_context", NoneV, ps)

AddOrdered == \E s \in ToolSecs, ps \in OrderTuples : add_providers(s, ps)

RenderOrdered == \E s \in ToolSecs : render(s)

NextOrder == ConstructOrdered \/ AddOrdered \/ RenderOrdered

SpecOrder == InitAvailable /\ [][NextOrder]_vars

(***************************************************************************)
(* Classes that leave formatter() or render() abstract                     *)
(***************************************************************************)
\* The sections the calls below make and the prompts are built from.
OutcomeSecs == {1, 2}

\* The section classes callers try to instantiate: the concrete ones, the
\* ones with abstract methods left, and SuperSection, whose formatter() and
\* render() override the abstract ones by calling them through super().
DeclaredSections ==
    SectionClasses \cup {"BareSection", "FormatterOnlySection", "SuperSection"}

DeclaredPrompts == PromptClasses \cup {"BarePrompt"}

InstantiateSection ==
    \E s \in OutcomeSecs, cls \in DeclaredSections :
        Construct(s, cls, "business_context", NoneV, <<>>)

InstantiatePrompt ==
    \E cls \in DeclaredPrompts, secs \in SeqsUpTo(OutcomeSecs, MaxArgs) :
        ConstructPrompt(cls, secs)

NextAbstract == InstantiateSection \/ InstantiatePrompt \/ RenderSection \/ PromptRender

SpecAbstract == InitAvailable /\ [][NextAbstract]_vars

(***************************************************************************)
(* Sections built from one list of tools, one context and the same         *)
(* providers, as in main() of examples/03; lists are objects, so a change  *)
(* of a list shows in every attribute bound to it.                         *)
(***************************************************************************)
\* field[t] for every section t after the list that section s holds in
\* `field` has taken the content `new`.
Mutated(field, old, s, new) ==
    [t \in SecIds |-> IF heap[field][t] = heap[field][s] THEN new ELSE old[t]]

\* The providers every section of main() is given.
SharedProviders == <<"metrics_provider">>

\* Section(business_context, tools, *SharedProviders) when fromCaller, with
\* `tools` the caller's list; Section() otherwise.
ConstructShared(s, cls, fromCaller) ==
    LET ts == IF fromCaller THEN ListV(heap.caller) ELSE NoneV
        ps == IF fromCaller THEN SharedProviders ELSE <<>>
        c  == IF fromCaller THEN "business_context" ELSE None
        r  == NormalizeInto(IF fromCaller THEN heap.caller ELSE <<>>, 1, <<>>)
        a  == [cls |-> cls, context |-> c, tools |-> ts, providers |-> ps]
    IN  /\ Len(r.ret.items) <= MaxTools
        /\ r.exc = "None"
        /\ last' = Op("__init__", s, a, "None", NoneV, <<>>)
        /\ klass' = [klass EXCEPT ![s] = cls]
        /\ context' = [context EXCEPT ![s] = c]
        /\ providers' = [providers EXCEPT ![s] = ps]
        /\ tools' = [tools EXCEPT ![s] = r.ret.items]
        /\ heap' = [heap EXCEPT
                        !.tools[s] = NewList(s, IF fromCaller THEN CallerList
                                                ELSE SharedDefault),
                        !.providers[s] = NewList(s, IF fromCaller THEN SharedArgs
                                                    ELSE SharedDefault)]
        /\ UNCHANGED <<avail, pklass, sections, calls>>

\* section.add_tools(*ts) on the list object section s holds.
add_tools_shared(s, ts) ==
    LET r == NormalizeInto(ts, 1, tools[s])
    IN  /\ Len(r.ret.items) <= MaxTools
        /\ tools' = Mutated("tools", tools, s, r.ret.items)
        /\ heap' = [heap EXCEPT !.caller = IF heap.tools[s] = CallerList
                                           THEN @ \o ts ELSE @]
        /\ last' = Op("add_tools", s, ts, r.exc, NoneV, <<>>)
        /\ UNCHANGED <<avail, klass, context, providers, pklass, sections, calls>>

\* section.add_providers(*ps) on the list object section s holds.
add_providers_shared(s, ps) ==
    LET kept == SelectSeq(ps, IsBaseProvider)
    IN  /\ Len(providers[s] \o kept) <= MaxProviders
        /\ providers' = Mutated("providers", providers, s, providers[s] \o kept)
        /\ last' = Op("add_providers", s, ps, "None", NoneV, <<>>)
        /\ UNCHANGED <<avail, heap, klass, context, tools, pklass, sections, calls>>

\* tools.append(x) by the caller, on the list it passed to the constructors.
caller_append(x) ==
    /\ Len(heap.caller) < MaxArgs
    /\ heap' = [heap EXCEPT !.caller = Append(@, x)]
    /\ tools' = [t \in SecIds |->
                    IF heap.tools[t] = CallerList
                    THEN Append(tools[t], ToolContextV("native", x)) ELSE tools[t]]
    /\ last' = Op("list.append", 0, <<x>>, "None", NoneV, <<>>)
    /\ UNCHANGED <<avail, klass, context, providers, pklass, sections, calls>>

\* Two sections are built, from the caller's objects or with defaults; the
\* additions go to the first of them.
BuildShared ==
    \E s \in OutcomeSecs, fromCaller \in BOOLEAN :
        ConstructShared(s, "ExecutiveSummarySection", fromCaller)

AddSharedTools == \E s \in ToolSecs : add_tools_shared(s, <<"toolset_ctx">>)

AddSharedProviders == \E s \in ToolSecs : add_providers_shared(s, <<"logs_provider">>)

CallerAppends == caller_append("toolset_ctx")

NextShared == BuildShared \/ AddSharedTools \/ AddSharedProviders \/ CallerAppends

SpecShared == InitAvailable /\ [][NextShared]_vars

(***************************************************************************)
(* str() on a section and on a prompt, and renders that raise              *)
(***************************************************************************)
\* The text of an outcome, empty when the call raised.
TextOf(r) == IF r.exc = "None" THEN r.ret.text ELSE <<>>

\* A __str__ that hands out a text without calling render().
str_without_render(s) ==
    /\ last' = Op("str", s, <<>>, "None", StrV(<<SectionTok("head", klass[s], "")>>), <<>>)
    /\ UNCHANGED <<avail, heap, klass, context, tools, providers, pklass, sections, calls>>

\* PromptSection.__str__: `return self.render()`.
__str__(s) ==
    LET r == formatter(s, calls)
    IN  /\ \A p \in ProviderObjs : r.calls[p] <= MaxCalls
        /\ calls' = r.calls
        /\ last' = Op("str", s, <<>>, r.exc, r.ret,
                      <<[ev |-> "render", of |-> s, value |-> TextOf(r)]>> \o r.trace)
        /\ UNCHANGED <<avail, heap, klass, context, tools, providers, pklass, sections>>

\* BasePrompt.__str__: `return self.render()`.
PromptStr ==
    LET r == RenderPrompt(calls)
    IN  /\ \A p \in ProviderObjs : r.calls[p] <= MaxCalls
        /\ calls' = r.calls
        /\ last' = Op("Prompt.str", 0, <<>>, r.exc, r.ret,
                      <<[ev |-> "Prompt.render", of |-> 0, value |-> TextOf(r)]>>
                      \o r.trace)
        /\ UNCHANGED <<avail, heap, klass, context, tools, providers, pklass, sections>>

\* Constructor calls with a provider that raises and one that returns the
\* same data every time.
OutcomeCalls ==
    {[cls |-> "ExecutiveSummarySection", context |-> "business_context",
      tools |-> ListV(<<"proompt_tool">>),
      providers |-> <<"metrics_provider", "failing_provider">>],
     [cls |-> "TechnicalAnalysisSection", context |-> "business_context",
      tools |-> NoneV, providers |-> <<"static_provider">>]}

ConstructOutcome ==
    \E s \in OutcomeSecs, a \in OutcomeCalls :
        Construct(s, a.cls, a.context, a.tools, a.providers)

NewSmallPrompt ==
    \E cls \in PromptClasses, secs \in SeqsUpTo(OutcomeSecs, MaxArgs) :
        ConstructPrompt(cls, secs)

StrSection == \E s \in SecIds : __str__(s)

NextOutcomes ==
    \/ ConstructOutcome
    \/ NewSmallPrompt
    \/ RenderSection
    \/ PromptRender
    \/ StrSection
    \/ PromptStr

SpecOutcomes == InitAvailable /\ [][NextOutcomes]_vars

(***************************************************************************)
(* Properties of tool normalization (checked under SpecTools).             *)
(***************************************************************************)
\* What a normalization result contributes to a tools list.
AsSeq(v) ==
    IF v = NoneV THEN <<>> ELSE IF v.kind = "list" THEN v.items ELSE <<v>>

RECURSIVE ConcatNormalized(_, _)
\* The contributions of the values from position i on, one after the other.
ConcatNormalized(values, i) ==
    IF i > Len(values) THEN <<>>
    ELSE AsSeq(_normalize_tool(values[i], 1).ret) \o ConcatNormalized(values, i + 1)

IsToolCall == last.op \in {"_normalize_tool", "add_tools", "__init__"}

\* C1: _normalize_tool returns a ToolContext, a list of ToolContext or None
\* for every input and never raises; nor do add_tools and the constructor.
C1_NormalizeTotal ==
    IsToolCall =>
        /\ last.exc = "None"
        /\ \A i \in 1..Len(AsSeq(last.ret)) : AsSeq(last.ret)[i].kind = "ToolContext"

\* C2: a ToolContext input is returned as the same object, also when it
\* exposes a `tools` mapping.
C2_IdentityShortCircuit ==
    (last.op = "_normalize_tool" /\ last.args[1] \in ToolContexts) =>
        /\ last.exc = "None"
        /\ last.ret = ToolContextV("native", last.args[1])

C2_Witness ==
    /\ avail
    /\ last.op = "_normalize_tool"
    /\ last.args[1] = "toolset_ctx"
    /\ last.ret = ToolContextV("native", "toolset_ctx")

\* The result of normalizing a collection holds the contributions of the
\* mapping's values in iteration order, and only ToolContext elements.
FlattensInOrder ==
    /\ AsSeq(last.ret) = ConcatNormalized(ToolsValues(last.args[1]), 1)
    /\ last.ret.kind \in {"None", "list"}
    /\ last.ret.kind = "list" => last.ret.items # <<>>
    /\ \A i \in 1..Len(AsSeq(last.ret)) : AsSeq(last.ret)[i].kind = "ToolContext"

IsToolsetResult ==
    last.op = "_normalize_tool" /\ last.args[1] \in Toolsets /\ last.exc = "None"

\* C3 as stated: the sequence that normalizing a collection yields holds the
\* descriptors of the mapping's values, in order, flattened.
C3_FlattenAlways == IsToolsetResult => FlattensInOrder

\* C3 amended: the same, when PYDANTIC_AI_AVAILABLE is true.
C3_FlattenWhenAvailable == (avail /\ IsToolsetResult) => FlattensInOrder

C3_Witness ==
    /\ avail
    /\ last.op = "_normalize_tool"
    /\ last.args[1] = "nested_toolset"
    /\ last.ret = ListV(<<ToolContextV("from_pydantic_tool", "calc_tool"),
                          ToolContextV("from_pydantic_tool", "search_tool"),
                          ToolContextV("from_pydantic_tool", "calc_tool")>>)

\* add_tools(native, foreign) on a section without tools leaves exactly the
\* two descriptors, in argument order.
AddsBoth(s) ==
    /\ last'.exc = "None"
    /\ Len(tools'[s]) = 2
    /\ tools'[s][1].tool_name = FunctionOf(last'.args[1])
    /\ tools'[s][2].tool_name = FunctionOf(last'.args[2])

IsNativePlusForeign(s) ==
    /\ tools[s] = <<>>
    /\ last'.op = "add_tools" /\ last'.sec = s
    /\ Len(last'.args) = 2
    /\ last'.args[1] \in ToolContexts
    /\ last'.args[2] \in PydanticTools

\* C8 as stated: add_tools with one native ToolContext and one foreign tool
\* on a section with zero tools makes len(tools) 2, both names present.
C8_AccumulateAlways ==
    [][\A s \in SecIds : IsNativePlusForeign(s) => AddsBoth(s)]_vars

\* C8 amended: the same, when PYDANTIC_AI_AVAILABLE is true.
C8_AccumulateWhenAvailable ==
    [][\A s \in SecIds : (avail /\ IsNativePlusForeign(s)) => AddsBoth(s)]_vars

C8_Witness ==
    /\ avail
    /\ last.op = "add_tools"
    /\ last.args = <<"proompt_tool", "search_tool">>
    /\ tools[last.sec] = <<ToolContextV("native", "proompt_tool"),
                           ToolContextV("from_pydantic_tool", "search_tool")>>

\* C11: after construction and after every add_tools call, whatever the
\* arguments and whether the call returned or raised, every element of a
\* section's tools list is a ToolContext: no None, no list, no raw object.
C11_ToolsAreToolContexts ==
    \A s \in SecIds : \A i \in 1..Len(tools[s]) :
        /\ tools[s][i].kind = "ToolContext"
        /\ tools[s][i].of \in ToolContexts \cup PydanticTools

C11_Witness ==
    /\ last.op = "add_tools"
    /\ last.args = <<"mixed_toolset">>
    /\ Len(tools[last.sec]) = 3
    /\ tools[last.sec][2] = ToolContextV("native", "proompt_tool")
    /\ tools[last.sec][3] = ToolContextV("from_pydantic_tool", "search_tool")

\* Collections whose mapping is empty or holds only values that normalize
\* to None.
EmptyCollections == {"empty_toolset", "junk_toolset", "callable_toolset"}

\* Every element of the sequence ts is such a collection.
AllEmptyCollections(ts) ==
    ts # <<>> /\ \A i \in 1..Len(ts) : ts[i] \in EmptyCollections

\* C21: normalizing a collection whose mapping is empty, or whose values all
\* normalize to None, returns None without raising (never a descriptor made
\* of the collection itself), and such collections passed to add_tools or
\* to the constructor add no tool.
C21_EmptyCollectionIsAbsent ==
    [][/\ (last'.op = "_normalize_tool" /\ last'.args[1] \in EmptyCollections) =>
             (last'.exc = "None" /\ last'.ret = NoneV)
       /\ (last'.op = "add_tools" /\ AllEmptyCollections(last'.args)) =>
             (last'.exc = "None" /\ tools' = tools)
       /\ (/\ last'.op = "__init__"
           /\ last'.args.tools # NoneV
           /\ AllEmptyCollections(last'.args.tools.items)) =>
             (last'.exc = "None" /\ tools'[last'.sec] = <<>>)]_vars

C21_Witness ==
    /\ avail
    /\ last.op = "add_tools"
    /\ last.args = <<"callable_toolset">>
    /\ last.exc = "None"
    /\ tools[last.sec] = <<ToolContextV("native", "proompt_tool")>>

\* C25: with PYDANTIC_AI_AVAILABLE false, _normalize_tool returns the input
\* itself for a ToolContext and None for every other input (a foreign tool,
\* a collection, a self-containing collection, an unrelated object), and
\* raises nothing; a constructor or add_tools call then returns too.
C25_UnavailableOnlyToolContexts ==
    ~avail =>
        /\ last.op = "_normalize_tool" =>
              /\ last.exc = "None"
              /\ last.ret = IF last.args[1] \in ToolContexts
                             THEN ToolContextV("native", last.args[1])
                             ELSE NoneV
        /\ last.op \in {"add_tools", "__init__"} => last.exc = "None"
        /\ \A s \in SecIds : \A i \in 1..Len(tools[s]) : tools[s][i].origin = "native"

C25_Witness ==
    /\ ~avail
    /\ last.op = "_normalize_tool"
    /\ last.args = <<"mixed_toolset">>
    /\ last.ret = NoneV

\* C26: a section constructed with the tools list T holds the descriptors
\* of T's elements, normalized one by one and put one after the other, and
\* so does a section without tools after add_tools(*T); the per-element
\* calls add_tools(T[1]), add_tools(T[2]), ... each extend the list by the
\* descriptors of their element, which gives the same sequence.
C26_ConstructorAsAddTools ==
    [][/\ (last'.op = "__init__" /\ last'.exc = "None" /\ last'.args.tools # NoneV) =>
             tools'[last'.sec] = ConcatNormalized(last'.args.tools.items, 1)
       /\ (last'.op = "add_tools" /\ last'.exc = "None") =>
             /\ tools[last'.sec] = <<>> =>
                    tools'[last'.sec] = ConcatNormalized(last'.args, 1)
             /\ Len(last'.args) = 1 =>
                    tools'[last'.sec] =
                        tools[last'.sec] \o AsSeq(_normalize_tool(last'.args[1], 1).ret)]_vars

C26_Witness ==
    /\ avail
    /\ last.op = "add_tools"
    /\ last.args = <<"proompt_tool", "search_tool">>
    /\ tools[last.sec] = <<ToolContextV("native", "proompt_tool"),
                           ToolContextV("from_pydantic_tool", "search_tool")>>

\* The collections among the values of the mapping of x.
InnerCollections(x) ==
    {ToolsValues(x)[i] : i \in 1..Len(ToolsValues(x))} \cap Toolsets

RECURSIVE DistinctCollections(_, _)
\* The distinct collections reachable from those of `frontier`, with the
\* ones in `seen` visited already.
DistinctCollections(frontier, seen) ==
    IF frontier \subseteq seen THEN seen
    ELSE DistinctCollections(UNION {InnerCollections(x) : x \in frontier},
                             seen \cup frontier)

\* C29: _normalize_tool returns for every collection, also for one whose
\* mapping holds the collection itself: its recursion goes no deeper than
\* there are distinct collections below the input, so it does not run into
\* the interpreter's recursion limit.
C29_NormalizeTerminates ==
    (/\ last.op = "_normalize_tool"
     /\ last.args[1] \in Toolsets
     /\ Cardinality(DistinctCollections({last.args[1]}, {})) <= RecursionLimit) =>
        last.exc # "RecursionError"

\* How many entries of the tools list ts are the ToolContext d itself.
Entries(ts, d) ==
    Cardinality({i \in 1..Len(ts) : ts[i] = ToolContextV("native", d)})

\* How many times the argument x passes d: once when it is d, and as often
\* as d stands among the mapping's values when it is a collection that is
\* looked into (`probed`).
Passes(x, d, probed) ==
    IF x = d THEN 1
    ELSE IF x \in Toolsets /\ probed
    THEN Cardinality({i \in 1..Len(ToolsValues(x)) : ToolsValues(x)[i] = d})
    ELSE 0

RECURSIVE PassesAll(_, _, _, _)
PassesAll(ts, i, d, probed) ==
    IF i > Len(ts) THEN 0
    ELSE Passes(ts[i], d, probed) + PassesAll(ts, i + 1, d, probed)

\* A constructor or add_tools call that returned adds one entry of d for
\* every time its arguments pass d, and as many entries in all as the
\* normalizer produced descriptors.
KeepsDuplicates(probed) ==
    /\ (last'.op = "add_tools" /\ last'.exc = "None") =>
          /\ \A d \in ToolContexts :
                 Entries(tools'[last'.sec], d) =
                     Entries(tools[last'.sec], d) + PassesAll(last'.args, 1, d, probed)
          /\ Len(tools'[last'.sec]) =
                 Len(tools[last'.sec]) + Len(ConcatNormalized(last'.args, 1))
    /\ (last'.op = "__init__" /\ last'.exc = "None" /\ last'.args.tools # NoneV) =>
          /\ \A d \in ToolContexts :
                 Entries(tools'[last'.sec], d) =
                     PassesAll(last'.args.tools.items, 1, d, probed)
          /\ Len(tools'[last'.sec]) = Len(ConcatNormalized(last'.args.tools.items, 1))

\* C23 as stated: a ToolContext passed k times, directly or through a
\* collection that holds it, has k entries in tools.
C23_NoDedupAlways == [][KeepsDuplicates(TRUE)]_vars

\* C23 amended: the same, with a collection counted only when
\* PYDANTIC_AI_AVAILABLE is true.
C23_NoDedupWhenProbed == [][KeepsDuplicates(avail)]_vars

C23_Witness ==
    /\ avail
    /\ last.op = "add_tools"
    /\ last.args = <<"mixed_toolset">>
    /\ tools[last.sec] = <<ToolContextV("native", "proompt_tool"),
                           ToolContextV("native", "proompt_tool"),
                           ToolContextV("from_pydantic_tool", "search_tool")>>


(***************************************************************************)
\* C5: reading the context of a section that has none fails with the error
\* of line 56 (ValueError, the spec's ConfigurationError) and returns no
\* default.
C5_UnsetContextRaises ==
    (last.op = "context.get" /\ context[last.sec] = None) =>
        last.exc = "ValueError"

C5_Witness ==
    /\ last.op = "context.get"
    /\ context[last.sec] = None
    /\ last.exc = "ValueError"

\* C6: once a Context c is bound to a section, reading `context` returns
\* exactly c and does not fail, whatever else c is (also when c is falsy).
C6_BoundContextIsReturned ==
    (last.op = "context.get" /\ context[last.sec] \in Contexts) =>
        /\ last.exc = "None"
        /\ last.ret = ObjectV(context[last.sec])

IsInvalidAssignment == last.op = "context.set" /\ last.args[1] \notin Contexts

\* C7 as stated: assigning a value that is not a Context fails with the
\* same kind of error as reading an unset context (ValueError, line 56).
C7_SetterRaisesGetterError == IsInvalidAssignment => last.exc = "ValueError"

\* C7 amended: assigning a value that is not a Context fails with a
\* TypeError (line 63).
C7_SetterRaisesTypeError == IsInvalidAssignment => last.exc = "TypeError"

C7_Witness ==
    /\ last.op = "context.set"
    /\ last.args[1] = "Ctx: X"
    /\ last.exc = "TypeError"

\* C27: whenever reading `context` returns a value instead of failing, the
\* value is a Context.
C27_ReadableContextIsValid ==
    (last.op = "context.get" /\ last.exc = "None") => last.ret.of \in Contexts

\* C28: a context assignment that raises leaves the section's context,
\* tools and providers as they were before the attempt.
C28_FailedAssignmentChangesNothing ==
    [][(last'.op = "context.set" /\ last'.exc # "None") =>
           /\ context' = context
           /\ tools' = tools
           /\ providers' = providers]_vars

C28_Witness ==
    /\ last.op = "context.set"
    /\ last.args[1] = "Ctx: X"
    /\ last.exc = "TypeError"
    /\ context[last.sec] = "business_context"

(***************************************************************************)
(* Properties of add_providers (checked under SpecProviders).              *)
(***************************************************************************)
RECURSIVE OnlyProviders(_, _)
\* The arguments from position i on that are BaseProvider instances.
OnlyProviders(ps, i) ==
    IF i > Len(ps) THEN <<>>
    ELSE (IF ps[i] \in ProviderObjs THEN <<ps[i]>> ELSE <<>>) \o OnlyProviders(ps, i + 1)

\* C9: add_providers appends exactly the arguments that are providers, in
\* argument order, drops every other argument and returns normally.
C9_OnlyProvidersAdded ==
    [][\A s \in SecIds :
        (last'.op = "add_providers" /\ last'.sec = s) =>
            /\ last'.exc = "None"
            /\ providers'[s] = providers[s] \o OnlyProviders(last'.args, 1)]_vars

C9_Witness ==
    /\ last.op = "add_providers"
    /\ last.args = MixedProviders
    /\ last.exc = "None"
    /\ providers[last.sec] = <<"metrics_provider">>

\* C12: every element of a section's providers list is a provider (never
\* None, never a value of another type), whether it came through the
\* constructor or through add_providers.
C12_ProvidersAreProviders ==
    \A s \in SecIds : \A i \in 1..Len(providers[s]) :
        providers[s][i] \in ProviderObjs

(***************************************************************************)
(* Properties of the two lists together (checked under SpecLists).         *)
(***************************************************************************)
\* a is a prefix of b: same elements, same order.
IsPrefix(a, b) == Len(a) <= Len(b) /\ SubSeq(b, 1, Len(a)) = a

\* C13: every add_tools and add_providers call, returning or raising,
\* leaves the content each list had before as a prefix of its content
\* after; nothing is removed, replaced or reordered.
C13_AppendOnly ==
    [][\A s \in SecIds :
        /\ IsPrefix(tools[s], tools'[s])
        /\ IsPrefix(providers[s], providers'[s])]_vars

C13_Witness ==
    /\ avail
    /\ last.op = "add_tools"
    /\ last.args = <<"proompt_tool", "cyclic_toolset">>
    /\ last.exc = "RecursionError"
    /\ Len(tools[last.sec]) = 3
    /\ tools[last.sec][3] = ToolContextV("native", "proompt_tool")
    /\ Len(providers[last.sec]) = 2

\* The arguments that are None or that the normalizer turns into None:
\* objects of no tool shape, an empty collection, a collection of such.
AbsentArgs == {None, "empty_toolset", "junk_toolset"} \cup Unrelated

\* The arguments of a call that are not of that kind, in argument order.
Remaining(ts) == SelectSeq(ts, LAMBDA x : x \notin AbsentArgs)

\* C20: an add_tools call whose arguments are all None or normalize to None
\* returns normally and leaves the tools list as it was; in a mixed call
\* these arguments contribute nothing and the call does exactly what it
\* does with the remaining arguments alone.
C20_SilentSkip ==
    [][\A s \in SecIds :
        (last'.op = "add_tools" /\ last'.sec = s) =>
            LET r == NormalizeInto(Remaining(last'.args), 1, tools[s])
            IN  /\ tools'[s] = r.ret.items
                /\ last'.exc = r.exc
                /\ Remaining(last'.args) = <<>> =>
                       (tools'[s] = tools[s] /\ last'.exc = "None")]_vars

C20_Witness ==
    /\ avail
    /\ last.op = "add_tools"
    /\ last.args = <<"42", "proompt_tool">>
    /\ last.exc = "None"
    /\ Len(tools[last.sec]) = 2
    /\ tools[last.sec][2] = ToolContextV("native", "proompt_tool")

(***************************************************************************)
(* Properties of rendering (checked under SpecRender).                     *)
(***************************************************************************)
\* The section.render() calls of a trace, in the order they were made.
RenderEvents(trace) == SelectSeq(trace, LAMBDA e : e.ev = "render")

RECURSIVE ConcatTexts(_, _)
\* The texts returned by the render events from position i on, one after
\* the other.
ConcatTexts(events, i) ==
    IF i > Len(events) THEN <<>> ELSE events[i].value \o ConcatTexts(events, i + 1)

\* The part of a prompt's text that its sections wrote.
SectionPart(text) == SelectSeq(text, LAMBDA k : k.level = "section")

\* C4: one prompt.render() calls render() of every section exactly once, in
\* list order, and the text returned holds the sections' texts exactly once
\* each, in that order.
C4_OrderPreserved ==
    last.op = "Prompt.render" =>
        LET events == RenderEvents(last.trace)
        IN  /\ last.exc = "None"
            /\ [i \in 1..Len(events) |-> events[i].of] = sections
            /\ SectionPart(last.ret.text) = ConcatTexts(events, 1)

C4_Witness ==
    /\ last.op = "Prompt.render"
    /\ Len(sections) = 3
    /\ klass[sections[1]] = "TechnicalAnalysisSection"
    /\ klass[sections[2]] = "ExecutiveSummarySection"
    /\ Len(SectionPart(last.ret.text)) > 9

\* The providers of section s that its formatter consumes, in list order.
Consumed(s) ==
    SelectSeq(providers[s], LAMBDA p : ClassOf(p) \in Consumes(klass[s]))

\* How many times p stands in the sequence ps.
Occurrences(ps, p) == Cardinality({i \in 1..Len(ps) : ps[i] = p})

\* The data a section's text shows.
DataPart(text) == SelectSeq(text, LAMBDA k : k.t = "data")

\* C10: every render() of a section calls run() once on each provider the
\* section consumes, and its text is built from the values those calls
\* returned, never from a value of an earlier render.
C10_RenderRunsProviders ==
    [][\A s \in SecIds :
        (last'.op = "render" /\ last'.sec = s) =>
            LET d == DataPart(last'.ret.text)
            IN  /\ \A p \in ProviderObjs :
                       calls'[p] = calls[p] + Occurrences(Consumed(s), p)
                /\ [i \in 1..Len(d) |-> d[i].what] = Consumed(s)
                /\ \A i \in 1..Len(d) :
                       /\ d[i].value > calls[d[i].what]
                       /\ d[i].value <= calls'[d[i].what]]_vars

C10_Witness ==
    /\ last.op = "render"
    /\ klass[last.sec] = "TechnicalAnalysisSection"
    /\ calls["logs_provider"] = 2
    /\ DataPart(last.ret.text)[1] = SectionTok("data", "logs_provider", 2)

\* The providers the run() calls of a trace were made on, in call order.
RunOrder(trace) ==
    LET runs == SelectSeq(trace, LAMBDA e : e.ev = "run")
    IN  [i \in 1..Len(runs) |-> runs[i].of]

\* C24: the providers list holds the constructor's arguments in their
\* order, followed by the providers of every add_providers call in call
\* order; a render calls run() on exactly the providers of a class the
\* section's formatter recognizes, in list order, and the text shows their
\* data in that order.
C24_ProviderOrder ==
    [][/\ (last'.op = "__init__" /\ last'.exc = "None") =>
             providers'[last'.sec] = last'.args.providers
       /\ last'.op = "add_providers" =>
             providers'[last'.sec] =
                 providers[last'.sec] \o SelectSeq(last'.args, LAMBDA p : p \in ProviderObjs)
       /\ (last'.op = "render" /\ last'.exc = "None") =>
             LET d == DataPart(last'.ret.text)
             IN  /\ RunOrder(last'.trace) = Consumed(last'.sec)
                 /\ [i \in 1..Len(d) |-> d[i].what] = Consumed(last'.sec)]_vars

C24_Witness ==
    /\ last.op = "render"
    /\ klass[last.sec] = "ExecutiveSummarySection"
    /\ providers[last.sec] = <<"logs_provider", "metrics_provider">>
    /\ RunOrder(last.trace) = <<"metrics_provider">>
    /\ Len(DataPart(last.ret.text)) = 1

\* C18: the text of a section that holds a consumed provider, a tool and a
\* bound context shows the provider's data, every tool's name and
\* description, and the context's rendered text.
C18_RenderCombinesAll ==
    (/\ last.op = "render" /\ last.exc = "None"
     /\ Consumed(last.sec) # <<>>
     /\ tools[last.sec] # <<>>
     /\ context[last.sec] \in Contexts) =>
        /\ DataPart(last.ret.text) # <<>>
        /\ \A i \in 1..Len(tools[last.sec]) :
               \E j \in 1..Len(last.ret.text) :
                   /\ last.ret.text[j].t = "tool"
                   /\ last.ret.text[j].what = tools[last.sec][i].tool_name
                   /\ last.ret.text[j].value = tools[last.sec][i].tool_description
        /\ \E j \in 1..Len(last.ret.text) :
               /\ last.ret.text[j].t = "context"
               /\ last.ret.text[j].what = context[last.sec]

\* What kind of token stands at each position of a text.
Shape(text) == [i \in 1..Len(text) |-> <<text[i].level, text[i].t>>]

\* The visual separator of a prompt class: blank lines, and for the
\* quarterly prompts the rule of "=" between blank lines.
SeparatorShape(cls) ==
    IF cls = "MixedToolsPrompt" THEN <<<<"prompt", "sep">>>>
    ELSE <<<<"prompt", "sep">>, <<"prompt", "rule">>, <<"prompt", "sep">>>>

\* The header and the footer of a prompt class; the footer of the quarterly
\* prompts opens with a rule.
HeaderShape(cls) ==
    IF cls = "MixedToolsPrompt" THEN <<>> ELSE <<<<"prompt", "header">>>>

FooterShape(cls) ==
    IF cls = "MixedToolsPrompt" THEN <<>>
    ELSE <<<<"prompt", "rule">>, <<"prompt", "footer">>,
           <<"prompt", "footer">>, <<"prompt", "footer">>>>

RECURSIVE JoinedShape(_, _, _)
\* The sections' texts from position i on with the separator between every
\* two of them.
JoinedShape(cls, events, i) ==
    IF i > Len(events) THEN <<>>
    ELSE Shape(events[i].value)
         \o (IF i < Len(events) THEN SeparatorShape(cls) ELSE <<>>)
         \o JoinedShape(cls, events, i + 1)

\* C22: the text of prompt.render() on two or more sections is the header,
\* the sections' texts with the visual separator between every two
\* consecutive ones, and the footer.
C22_RenderShape ==
    (last.op = "Prompt.render" /\ last.exc = "None" /\ Len(sections) >= 2) =>
        Shape(last.ret.text) =
            HeaderShape(pklass)
            \o JoinedShape(pklass, RenderEvents(last.trace), 1)
            \o FooterShape(pklass)

(***************************************************************************)
(* Properties of render outcomes (checked under SpecOutcomes).             *)
(***************************************************************************)
\* The run() calls of a trace that raised.
Raises(trace) == SelectSeq(trace, LAMBDA e : e.ev = "raise")

\* C14: when run() of a provider raises E during section.render() or
\* prompt.render(), the call raises that same E, returns no text (not the
\* text of the sections rendered before either), and the failed run() is
\* the last thing it did: no retry, no further provider or section.
C14_FailurePropagates ==
    (last.op \in {"render", "Prompt.render"} /\ Raises(last.trace) # <<>>) =>
        /\ last.exc = Raises(last.trace)[1].exc
        /\ last.ret = NoneV
        /\ Len(Raises(last.trace)) = 1
        /\ last.trace[Len(last.trace)].ev = "raise"

C14_Witness ==
    /\ last.op = "Prompt.render"
    /\ Len(sections) = 2
    /\ klass[sections[1]] = "TechnicalAnalysisSection"
    /\ klass[sections[2]] = "ExecutiveSummarySection"
    /\ last.exc = "ConnectionError"
    /\ last.trace[1].ev = "render" /\ last.trace[1].value # <<>>
    /\ last.trace[Len(last.trace)] =
           [ev |-> "raise", of |-> "failing_provider", exc |-> "ConnectionError"]

(***************************************************************************)
(* Properties of list ownership (checked under SpecShared).                *)
(***************************************************************************)
\* The list objects that do not belong to one section.
ForeignLists == {CallerList, SharedDefault, SharedArgs}

\* Every section holds list objects no other section and no caller holds.
OwnLists(h) ==
    \A s \in SecIds :
        /\ h.tools[s] \notin ForeignLists
        /\ h.providers[s] \notin ForeignLists
        /\ \A t \in SecIds \ {s} :
               h.tools[s] # h.tools[t] /\ h.providers[s] # h.providers[t]

\* C30: every section holds tools and providers lists of its own; a
\* constructor, add_tools or add_providers call on one section leaves the
\* lists of every other section and the caller's list as they were, and a
\* later append to the caller's list leaves every section as it was.
C30_ListsAreOwn ==
    [][/\ OwnLists(heap')
       /\ last'.op \in {"__init__", "add_tools", "add_providers"} =>
             /\ heap'.caller = heap.caller
             /\ \A t \in SecIds \ {last'.sec} :
                    tools'[t] = tools[t] /\ providers'[t] = providers[t]
       /\ last'.op = "list.append" =>
             (tools' = tools /\ providers' = providers)]_vars

C30_Witness ==
    /\ last.op = "add_tools"
    /\ last.sec = 1
    /\ \A s \in OutcomeSecs :
           klass[s] = "ExecutiveSummarySection" /\ context[s] = "business_context"
    /\ heap.caller = <<"proompt_tool">>
    /\ tools[1] = <<ToolContextV("native", "proompt_tool"),
                    ToolContextV("native", "toolset_ctx")>>
    /\ tools[2] = <<ToolContextV("native", "proompt_tool")>>

(***************************************************************************)
(* Properties of abstract classes (checked under SpecAbstract).            *)
(***************************************************************************)
\* The classes that leave formatter() or render() without an override.
NonOverriding == {"BareSection", "FormatterOnlySection", "BarePrompt"}

\* The last call tried to instantiate a class that overrides too little.
InstantiatesNonOverriding ==
    last.op \in {"__init__", "Prompt.__init__"} /\ last.args.cls \in NonOverriding

\* No object of such a class exists.
NoInstanceOfNonOverriding ==
    pklass \notin NonOverriding /\ \A s \in SecIds : klass[s] \notin NonOverriding

\* The base implementation, reached through super(), raises
\* NotImplementedError when it is invoked.
BaseBodyRaises ==
    (last.op = "render" /\ klass[last.sec] = "SuperSection") =>
        last.exc = "NotImplementedError"

\* C15 as stated: a subclass that does not override formatter or render
\* faults only at the moment the operation is invoked on it (instantiating
\* it raises nothing), and the fault is NotImplementedError.
C15_FaultAtInvocation ==
    /\ InstantiatesNonOverriding => last.exc = "None"
    /\ BaseBodyRaises

\* C15 amended: instantiating a subclass that does not override formatter
\* or render raises TypeError, so no object of it exists to invoke the
\* operation on; NotImplementedError is what the base implementation
\* raises when it is reached through super().
C15_FaultAtInstantiation ==
    /\ InstantiatesNonOverriding => last.exc = "TypeError"
    /\ NoInstanceOfNonOverriding
    /\ BaseBodyRaises

C15_Witness ==
    /\ last.op = "__init__"
    /\ last.args.cls = "FormatterOnlySection"
    /\ last.exc = "TypeError"
    /\ \E s \in SecIds : klass[s] = "SuperSection"

IsRenderCall(op) == op \in {"render", "Prompt.render", "str", "Prompt.str"}

\* C16: render() and str() of a section or of a prompt, returning or
\* raising, leave the prompt's sections and every section's tools,
\* providers and context as they were.
C16_RenderNotMutating ==
    [][IsRenderCall(last'.op) =>
          /\ sections' = sections
          /\ tools' = tools
          /\ providers' = providers
          /\ context' = context]_vars

C16_Witness ==
    /\ last.op = "Prompt.str"
    /\ last.exc = "ConnectionError"
    /\ Len(sections) = 2
    /\ providers[sections[1]] = <<"static_provider">>
    /\ providers[sections[2]] = <<"metrics_provider", "failing_provider">>
    /\ tools[sections[2]] = <<ToolContextV("native", "proompt_tool")>>
    /\ context[sections[2]] = "business_context"

\* Every provider that a section of the prompt consumes returns the same
\* data on every call.
ProvidersDeterministic ==
    \A i \in 1..Len(sections) :
        \A j \in 1..Len(providers[sections[i]]) :
            ClassOf(providers[sections[i]][j]) \in Consumes(klass[sections[i]])
                => providers[sections[i]][j] = "static_provider"

\* C17: when every consumed provider returns the same data on every call,
\* a prompt.render() that directly follows a prompt.render() returns the
\* identical text.
C17_RenderDeterministic ==
    [][(/\ last.op = "Prompt.render" /\ last.exc = "None"
        /\ last'.op = "Prompt.render"
        /\ ProvidersDeterministic)
          => (last'.exc = "None" /\ last'.ret = last.ret)]_vars

C17_Witness ==
    /\ last.op = "Prompt.render"
    /\ last.exc = "None"
    /\ pklass = "QuarterlyReviewPrompt"
    /\ Len(sections) = 2
    /\ providers[sections[1]] = <<"static_provider">>
    /\ klass[sections[2]] = "AnalysisSection"
    /\ calls["static_provider"] = 3
    /\ DataPart(last.ret.text) = <<SectionTok("data", "static_provider", 0)>>

\* The render() calls a str() made on its own object.
OwnRenders(trace, ev, of) ==
    SelectSeq(trace, LAMBDA e : e.ev = ev /\ e.of = of)

\* The outcome of a str() call is the outcome r of render() on the state
\* before the call: same exception, same text, same run() calls.
SameOutcome(r) ==
    /\ last'.exc = r.exc
    /\ last'.ret = r.ret
    /\ calls' = r.calls

\* C19: str(section) and str(prompt) call render() of their object exactly
\* once, return what it returns, raise what it raises and query the
\* providers as it does.
C19_StrIsRender ==
    [][/\ last'.op = "str" =>
            /\ Len(OwnRenders(last'.trace, "render", last'.sec)) = 1
            /\ SameOutcome(formatter(last'.sec, calls))
       /\ last'.op = "Prompt.str" =>
            /\ Len(OwnRenders(last'.trace, "Prompt.render", 0)) = 1
            /\ SameOutcome(RenderPrompt(calls))]_vars

C19_Witness ==
    /\ last.op = "str"
    /\ klass[last.sec] = "ExecutiveSummarySection"
    /\ last.exc = "ConnectionError"
    /\ calls["metrics_provider"] = 2
    /\ last.trace = <<[ev |-> "render", of |-> last.sec, value |-> <<>>],
                      [ev |-> "run", of |-> "metrics_provider", value |-> 2],
                      [ev |-> "raise", of |-> "failing_provider", exc |-> "ConnectionError"]>>

====
